---- MODULE Spec2Model ----
(***************************************************************************)
(* Model of the message store (main.py: /register, /messages) and of the   *)
(* live-connection registry (websocket.py: connect, disconnect,            *)
(* send_message) of the secure-chat backend.                                *)
(*                                                                          *)
(* Strings are sequences of one-character strings, so that json.dumps,     *)
(* json.loads and str.startswith are computed and not assumed.             *)
(***************************************************************************)
EXTENDS Integers, Sequences, FiniteSets, TLC

\* ------------------------------------------------------------- bounds
MaxChannels == 3   \* WebSocket objects 1..MaxChannels, allocated in order
MaxSent     == 1   \* rows of the messages table, specification Spec
MaxTrip     == 1   \* rows of the messages table, specification SpecRoundTrip
MaxMsgs     == 2   \* rows of the messages table, specification SpecHistory
MaxPush     == 1   \* frames pushed over all channels
MaxClock    == 1   \* values func.now() takes: 0..MaxClock

\* active_connections.get(k) / pop(k, None) when k is absent
None == 0

\* the public ids requests name: the ids of the accounts /register can create
UserIds  == {"u-1", "u-2"}
\* no user: the argument a call does not take
NoUser   == "none"
Channels == 1..MaxChannels

\* ------------------------------------------------------------- JSON values
\* A value is [t |-> "s", v |-> <chars>] (str) or [t |-> "d", v |-> <pairs>]
\* (dict, as its insertion-ordered sequence of <<key chars, value>>).
Str(chars)   == [t |-> "s", v |-> chars]
Dict(pairs)  == [t |-> "d", v |-> pairs]

Quote == "\""

RECURSIVE JsonDumps(_)
RECURSIVE DumpItems(_, _)
DumpItems(pairs, i) ==
    IF i > Len(pairs) THEN <<>>
    ELSE (IF i > 1 THEN <<",", " ">> ELSE <<>>)
         \o <<Quote>> \o pairs[i][1] \o <<Quote, ":", " ">>
         \o JsonDumps(pairs[i][2])
         \o DumpItems(pairs, i + 1)

\* json.dumps with the default separators (", " and ": "); the characters of
\* the modelled strings need no escaping
JsonDumps(val) ==
    IF val.t = "s" THEN <<Quote>> \o val.v \o <<Quote>>
    ELSE <<"{">> \o DumpItems(val.v, 1) \o <<"}">>

ParseFail == [ok |-> FALSE, val |-> Str(<<>>), next |-> 0]

RECURSIVE SkipWs(_, _)
SkipWs(s, i) == IF i <= Len(s) /\ s[i] = " " THEN SkipWs(s, i + 1) ELSE i

RECURSIVE ScanQuote(_, _)
ScanQuote(s, i) ==
    IF i > Len(s) THEN 0 ELSE IF s[i] = Quote THEN i ELSE ScanQuote(s, i + 1)

\* a JSON string starting at s[i]
ParseString(s, i) ==
    IF i > Len(s) \/ s[i] # Quote THEN ParseFail
    ELSE LET j == ScanQuote(s, i + 1)
         IN  IF j = 0 THEN ParseFail
             ELSE [ok |-> TRUE, val |-> Str(SubSeq(s, i + 1, j - 1)), next |-> j + 1]

RECURSIVE DictSet(_, _, _, _)
\* d[k] = v on an insertion-ordered dict: an existing key keeps its place
DictSet(pairs, k, v, i) ==
    IF i > Len(pairs) THEN Append(pairs, <<k, v>>)
    ELSE IF pairs[i][1] = k THEN [pairs EXCEPT ![i] = <<k, v>>]
    ELSE DictSet(pairs, k, v, i + 1)

RECURSIVE ParseValue(_, _)
RECURSIVE ParseMembers(_, _, _)
\* the members of an object from s[i] (the opening quote of a key) on
ParseMembers(s, i, acc) ==
    LET key == ParseString(s, i)
    IN  IF ~key.ok THEN ParseFail
        ELSE LET j == SkipWs(s, key.next)
             IN  IF j > Len(s) \/ s[j] # ":" THEN ParseFail
                 ELSE LET val == ParseValue(s, SkipWs(s, j + 1))
                      IN  IF ~val.ok THEN ParseFail
                          ELSE LET acc2 == DictSet(acc, key.val.v, val.val, 1)
                                   m    == SkipWs(s, val.next)
                               IN  IF m > Len(s) THEN ParseFail
                                   ELSE IF s[m] = "}"
                                        THEN [ok |-> TRUE, val |-> Dict(acc2), next |-> m + 1]
                                   ELSE IF s[m] = ","
                                        THEN ParseMembers(s, SkipWs(s, m + 1), acc2)
                                   ELSE ParseFail

\* a JSON value starting at s[i]: a string or an object (the alphabet of the
\* modelled strings holds no digit, bracket or literal)
ParseValue(s, i) ==
    IF i > Len(s) THEN ParseFail
    ELSE IF s[i] = Quote THEN ParseString(s, i)
    ELSE IF s[i] = "{"
         THEN LET j == SkipWs(s, i + 1)
              IN  IF j > Len(s) THEN ParseFail
                  ELSE IF s[j] = "}"
                       THEN [ok |-> TRUE, val |-> Dict(<<>>), next |-> j + 1]
                  ELSE ParseMembers(s, j, <<>>)
    ELSE ParseFail

\* json.loads: one value, surrounded by optional whitespace; ok = FALSE models
\* the JSONDecodeError
JsonLoads(s) ==
    LET r == ParseValue(s, SkipWs(s, 1))
    IN  IF r.ok /\ SkipWs(s, r.next) = Len(s) + 1 THEN r ELSE ParseFail

RECURSIVE ValEq(_, _)
\* Python ==: dicts are equal when they hold the same keys with equal values,
\* whatever the insertion order
ValEq(a, b) ==
    /\ a.t = b.t
    /\ IF a.t = "s" THEN a.v = b.v
       ELSE /\ Len(a.v) = Len(b.v)
            /\ \A i \in 1..Len(a.v) :
                  \E j \in 1..Len(b.v) :
                     /\ a.v[i][1] = b.v[j][1]
                     /\ ValEq(a.v[i][2], b.v[j][2])

\* ------------------------------------------------------------- inputs
Hi == <<"h", "i">>
K  == <<"k">>
V  == <<"v">>

\* request bodies with a str message: plain text, text that merely starts
\* with a brace, and text that is itself a JSON object
Texts ==
    { Str(Hi),
      Str(<<"{", "h">>),
      Str(<<"{", "}">>) }

\* request bodies with a dict message
Dicts ==
    { Dict(<<>>),
      Dict(<< <<K, Str(V)>> >>),
      Dict(<< <<K, Str(Hi)>>, <<V, Dict(<< <<K, Str(<<>>)>> >>)>> >>) }

Payloads == Texts \cup Dicts

\* the two bodies the dispatch specification sends
SomePayloads == { Str(Hi), Dict(<< <<K, Str(V)>> >>) }

NoPayload == Str(<<>>)

\* ------------------------------------------------------------- state
VARIABLES
    users,               \* rows of the users table, by public id
    messages,            \* rows of the messages table, in insertion order
    now,                 \* the value func.now() returns
    active_connections,  \* websocket.py: user id -> channel, None when absent
    ws_state,            \* per WebSocket: "new", "accepting", "open", "closed"
    ws_user,             \* per WebSocket: the user id its session connected with
    sent,                \* per WebSocket: the frames send_json has written to it
    last                 \* the call that returned last, with its outcome

vars == <<users, messages, now, active_connections, ws_state, ws_user, sent, last>>

store    == <<users, messages, now>>
registry == <<active_connections, ws_state, ws_user>>

\* the outcome of the step taken last: op and its arguments (a, b, msg, fails),
\* the channel it found or was given (ws), the session that made it (by), its
\* status, and the rows a history query returned
Resp(op, a, b, ws, by, msg, fails, status, result) ==
    [op |-> op, a |-> a, b |-> b, ws |-> ws, by |-> by, msg |-> msg,
     fails |-> fails, status |-> status, result |-> result]

Init ==
    /\ users = {}
    /\ messages = <<>>
    /\ now = 0
    /\ active_connections = [u \in UserIds |-> None]
    /\ ws_state = [w \in Channels |-> "new"]
    /\ ws_user = [w \in Channels |-> NoUser]
    /\ sent = [w \in Channels |-> <<>>]
    /\ last = Resp("start", NoUser, NoUser, None, None, NoPayload, FALSE, "ok", <<>>)

\* ------------------------------------------------------------- the store
\* POST /register: a second registration of the same account is refused
register(u) ==
    /\ IF u \in users
       THEN /\ UNCHANGED users
            /\ last' = Resp("register", u, NoUser, None, None, NoPayload, FALSE,
                            "bad_request", <<>>)
       ELSE /\ users' = users \cup {u}
            /\ last' = Resp("register", u, NoUser, None, None, NoPayload, FALSE,
                            "ok", <<>>)
    /\ UNCHANGED <<messages, now, registry, sent>>

\* the clock of the persistence layer advances
Tick ==
    /\ now < MaxClock
    /\ now' = now + 1
    /\ last' = Resp("tick", NoUser, NoUser, None, None, NoPayload, FALSE, "ok", <<>>)
    /\ UNCHANGED <<users, messages, registry, sent>>

\* json.dumps(data.message) if isinstance(data.message, dict) else data.message
StoredMessage(p) == IF p.t = "d" THEN JsonDumps(p) ELSE p.v

\* Message(sender_id, receiver_id, message, message_type="text"), with the id
\* and created_at the table assigns on insert
NewRow(s, r, p) ==
    [id |-> Len(messages) + 1, sender_id |-> s, receiver_id |-> r,
     message |-> StoredMessage(p), message_type |-> "text", created_at |-> now]

\* send_message, pushing to the receiver's channel before the commit
send_message_push_first(s, r, p, fails) ==
    /\ IF s \notin users \/ r \notin users
       THEN /\ UNCHANGED <<messages, sent>>
            /\ last' = Resp("send_message", s, r, None, None, p, fails,
                            "not_found", <<>>)
       ELSE /\ sent' = IF active_connections[r] # None
                       THEN [sent EXCEPT ![active_connections[r]] =
                                Append(@, [sender |-> s, receiver |-> r, message |-> p])]
                       ELSE sent
            /\ IF fails
               THEN /\ UNCHANGED messages
                    /\ last' = Resp("send_message", s, r, None, None, p, fails,
                                    "storage_error", <<>>)
               ELSE /\ messages' = Append(messages, NewRow(s, r, p))
                    /\ last' = Resp("send_message", s, r, None, None, p, fails,
                                    "ok", <<>>)
    /\ UNCHANGED <<users, now, registry>>

\* send_message, refusing a receiver that has no live channel
send_message_offline_refused(s, r, p, fails) ==
    /\ IF s \notin users \/ r \notin users \/ active_connections[r] = None
       THEN /\ UNCHANGED messages
            /\ last' = Resp("send_message", s, r, None, None, p, fails,
                            "not_found", <<>>)
       ELSE IF fails
       THEN /\ UNCHANGED messages
            /\ last' = Resp("send_message", s, r, None, None, p, fails,
                            "storage_error", <<>>)
       ELSE /\ messages' = Append(messages, NewRow(s, r, p))
            /\ last' = Resp("send_message", s, r, None, None, p, fails,
                            "ok", <<>>)
    /\ UNCHANGED <<users, now, registry, sent>>

\* send_message, checking the sender alone
send_message_sender_only(s, r, p, fails) ==
    /\ IF s \notin users
       THEN /\ UNCHANGED messages
            /\ last' = Resp("send_message", s, r, None, None, p, fails,
                            "not_found", <<>>)
       ELSE IF fails
       THEN /\ UNCHANGED messages
            /\ last' = Resp("send_message", s, r, None, None, p, fails,
                            "storage_error", <<>>)
       ELSE /\ messages' = Append(messages, NewRow(s, r, p))
            /\ last' = Resp("send_message", s, r, None, None, p, fails,
                            "ok", <<>>)
    /\ UNCHANGED <<users, now, registry, sent>>

\* POST /messages. fails: db.commit() raises
send_message(s, r, p, fails) ==
    /\ IF s \notin users \/ r \notin users
       THEN /\ UNCHANGED messages
            /\ last' = Resp("send_message", s, r, None, None, p, fails,
                            "not_found", <<>>)
       ELSE IF fails
       THEN /\ UNCHANGED messages
            /\ last' = Resp("send_message", s, r, None, None, p, fails,
                            "storage_error", <<>>)
       ELSE /\ messages' = Append(messages, NewRow(s, r, p))
            /\ last' = Resp("send_message", s, r, None, None, p, fails,
                            "ok", <<>>)
    /\ UNCHANGED <<users, now, registry, sent>>

\* msg_content without the json.loads branch
DisplayMessage_raw(text) == Str(text)

\* msg_content of get_messages: a stored text that starts with '{' is replaced
\* by json.loads of it, unless json.loads raises
DisplayMessage(text) ==
    IF Len(text) > 0 /\ text[1] = "{"
    THEN LET r == JsonLoads(text) IN IF r.ok THEN r.val ELSE Str(text)
    ELSE Str(text)

\* one element of the response of GET /messages
ResultRow(m) ==
    [id |-> m.id, sender_id |-> m.sender_id, receiver_id |-> m.receiver_id,
     message |-> DisplayMessage(m.message), message_type |-> m.message_type,
     created_at |-> m.created_at]

\* the filter of the history query on the table msgs: the rows between user
\* and contact
Between(msgs, u, c) ==
    { i \in 1..Len(msgs) :
        \/ msgs[i].sender_id = u /\ msgs[i].receiver_id = c
        \/ msgs[i].sender_id = c /\ msgs[i].receiver_id = u }

\* .order_by(Message.created_at).all(): every order of the selected rows that
\* is ascending in created_at; rows with equal created_at come in any order
OrderByCreatedAt(msgs, rows) ==
    { o \in [1..Cardinality(rows) -> rows] :
        /\ \A i, j \in DOMAIN o : i # j => o[i] # o[j]
        /\ \A i, j \in DOMAIN o :
              i < j => msgs[o[i]].created_at <= msgs[o[j]].created_at }

\* the responses GET /messages can give on the table msgs
get_messages_results(msgs, u, c) ==
    { [i \in DOMAIN o |-> ResultRow(msgs[o[i]])] :
        o \in OrderByCreatedAt(msgs, Between(msgs, u, c)) }

\* GET /messages
get_messages(u, c) ==
    /\ IF u \notin users \/ c \notin users
       THEN last' = Resp("get_messages", u, c, None, None, NoPayload, FALSE,
                         "not_found", <<>>)
       ELSE \E res \in get_messages_results(messages, u, c) :
               last' = Resp("get_messages", u, c, None, None, NoPayload, FALSE,
                            "ok", res)
    /\ UNCHANGED <<store, registry, sent>>

\* ------------------------------------------------------------- the registry
\* the WebSocket object a new session is given
NextChannel(w) ==
    /\ ws_state[w] = "new"
    /\ \A x \in Channels : x < w => ws_state[x] # "new"

\* connect, up to its suspension point: await websocket.accept()
connect_accept(u, w) ==
    /\ NextChannel(w)
    /\ ws_state' = [ws_state EXCEPT ![w] = "accepting"]
    /\ ws_user' = [ws_user EXCEPT ![w] = u]
    /\ last' = Resp("connect_accept", u, NoUser, w, w, NoPayload, FALSE, "ok", <<>>)
    /\ UNCHANGED <<store, active_connections, sent>>

\* connect, resumed, as active_connections.setdefault(user_id, websocket)
connect_setdefault(u, w) ==
    /\ ws_state[w] = "accepting"
    /\ ws_user[w] = u
    /\ active_connections' =
          IF active_connections[u] = None
          THEN [active_connections EXCEPT ![u] = w]
          ELSE active_connections
    /\ ws_state' = [ws_state EXCEPT ![w] = "open"]
    /\ last' = Resp("connect", u, NoUser, w, w, NoPayload, FALSE, "ok", <<>>)
    /\ UNCHANGED <<store, ws_user, sent>>

\* connect, resumed: active_connections[user_id] = websocket
connect(u, w) ==
    /\ ws_state[w] = "accepting"
    /\ ws_user[w] = u
    /\ active_connections' = [active_connections EXCEPT ![u] = w]
    /\ ws_state' = [ws_state EXCEPT ![w] = "open"]
    /\ last' = Resp("connect", u, NoUser, w, w, NoPayload, FALSE, "ok", <<>>)
    /\ UNCHANGED <<store, ws_user, sent>>

\* disconnect as active_connections.clear()
disconnect_clear(u, by) ==
    /\ ws_state[by] = "open"
    /\ ws_user[by] = u
    /\ active_connections' = [v \in UserIds |-> None]
    /\ ws_state' = [ws_state EXCEPT ![by] = "closed"]
    /\ last' = Resp("disconnect", u, NoUser, active_connections[u], by,
                    NoPayload, FALSE, "ok", <<>>)
    /\ UNCHANGED <<store, ws_user, sent>>

\* disconnect(user_id), called by the session `by` of that user when it ends:
\* active_connections.pop(user_id, None)
disconnect(u, by) ==
    /\ ws_state[by] = "open"
    /\ ws_user[by] = u
    /\ active_connections' = [active_connections EXCEPT ![u] = None]
    /\ ws_state' = [ws_state EXCEPT ![by] = "closed"]
    /\ last' = Resp("disconnect", u, NoUser, active_connections[u], by,
                    NoPayload, FALSE, "ok", <<>>)
    /\ UNCHANGED <<store, ws_user, sent>>

\* the dict pushed to a receiver
Frame(s, r, p) == [sender |-> s, receiver |-> r, message |-> p]

Pushed == LET RECURSIVE Sum(_)
              Sum(w) == IF w = 0 THEN 0 ELSE Len(sent[w]) + Sum(w - 1)
          IN  Sum(MaxChannels)

\* websocket.send_message(receiver_id, message). fails: ws.send_json raises
\* (the channel is stale or half-closed)
ws_send_message(r, frame, fails) ==
    /\ LET ws == active_connections[r]
       IN  IF ws # None
           THEN IF fails
                THEN /\ UNCHANGED sent
                     /\ last' = Resp("ws_send_message", frame.sender, r, ws, None,
                                     frame.message, fails, "raised", <<>>)
                ELSE /\ sent' = [sent EXCEPT ![ws] = Append(@, frame)]
                     /\ last' = Resp("ws_send_message", frame.sender, r, ws, None,
                                     frame.message, fails, "ok", <<>>)
           ELSE /\ UNCHANGED sent
                /\ last' = Resp("ws_send_message", frame.sender, r, None, None,
                                frame.message, fails, "ok", <<>>)
    /\ UNCHANGED <<store, registry>>

\* ------------------------------------------------------------- specifications
\* a POST /messages while the table holds fewer than max rows
Send(max, s, r, p, fails) ==
    /\ Len(messages) < max
    /\ send_message(s, r, p, fails)

\* a push of the text "hi" from s to r
Push(s, r, fails) ==
    /\ Pushed < MaxPush
    /\ ws_send_message(r, Frame(s, r, Str(Hi)), fails)

\* Dispatch: the store and one session at a time on the first channel
Next ==
    \/ \E u \in UserIds : register(u)
    \/ \E s, r \in UserIds, p \in SomePayloads, fails \in BOOLEAN :
          Send(MaxSent, s, r, p, fails)
    \/ \E u \in UserIds : connect_accept(u, 1)
    \/ \E u \in UserIds : connect(u, 1)
    \/ \E u \in UserIds : disconnect(u, 1)
    \/ \E s, r \in UserIds, fails \in BOOLEAN : Push(s, r, fails)

Spec == Init /\ [][Next]_vars

\* Registry: the sessions of every channel, and the pushes
NextRegistry ==
    \/ \E u \in UserIds, w \in Channels : connect_accept(u, w)
    \/ \E u \in UserIds, w \in Channels : connect(u, w)
    \/ \E u \in UserIds, by \in Channels : disconnect(u, by)
    \/ \E s, r \in UserIds, fails \in BOOLEAN : Push(s, r, fails)

SpecRegistry == Init /\ [][NextRegistry]_vars

\* Round trip: the store alone, with every body
NextRoundTrip ==
    \/ \E u \in UserIds : register(u)
    \/ \E s, r \in UserIds, p \in Payloads :
          Send(MaxTrip, s, r, p, FALSE)
    \/ \E u, c \in UserIds : get_messages(u, c)

SpecRoundTrip == Init /\ [][NextRoundTrip]_vars

\* History: the store alone, with the clock
NextHistory ==
    \/ \E u \in UserIds : register(u)
    \/ Tick
    \/ \E s, r \in UserIds : Send(MaxMsgs, s, r, Str(Hi), FALSE)
    \/ \E u, c \in UserIds : get_messages(u, c)

SpecHistory == Init /\ [][NextHistory]_vars

\* ------------------------------------------------------------- properties
\* Every action sets last.op, so a step that changes the state is a step of
\* the call last' names.
SendStep == last'.op = "send_message"

\* the row a successful send of last' adds
SentRow ==
    [id |-> Len(messages) + 1, sender_id |-> last'.a, receiver_id |-> last'.b,
     message |-> StoredMessage(last'.msg), message_type |-> "text",
     created_at |-> now]

\* C1: when the receiver has a channel in the registry, a send from one
\* existing user to another whose commit succeeds adds exactly one row (sender A,
\* receiver B) and appends exactly one frame with the same content to the
\* receiver's channel, and to no other channel.
C1_LiveSendPushesOnce ==
    [][ ( /\ SendStep
          /\ last'.a \in users /\ last'.b \in users /\ ~last'.fails
          /\ last'.a # last'.b
          /\ active_connections[last'.b] # None )
        => ( /\ messages' = Append(messages, SentRow)
             /\ sent' = [sent EXCEPT ![active_connections[last'.b]] =
                           Append(@, Frame(last'.a, last'.b, last'.msg))] )
      ]_vars

C3_OfflineSend ==
    [][ ( /\ SendStep
          /\ last'.a \in users /\ last'.b \in users /\ ~last'.fails
          /\ active_connections[last'.b] = None )
        => ( /\ last'.status = "ok"
             /\ messages' = Append(messages, SentRow)
             /\ sent' = sent
             /\ \A res \in get_messages_results(messages', last'.a, last'.b) :
                   \E i \in DOMAIN res :
                      /\ res[i].id = SentRow.id
                      /\ res[i].sender_id = last'.a
                      /\ res[i].receiver_id = last'.b )
      ]_vars

\* C3 witness: a send to an offline receiver has returned ok
C3_Witness ==
    /\ last.op = "send_message"
    /\ last.status = "ok"
    /\ last.a # last.b
    /\ active_connections[last.b] = None
    /\ ws_state[1] = "closed" /\ ws_user[1] = last.b
    /\ Len(messages) = 1

\* C5: a push from another user that fails on the receiver's registered channel returns without
\* error to its caller, and leaves the stored rows in place.
C5_PushFailureSwallowed ==
    [][ ( /\ last'.op = "ws_send_message"
          /\ last'.fails
          /\ last'.a # last'.b
          /\ active_connections[last'.b] # None )
        => ( /\ last'.status = "ok"
             /\ messages' = messages )
      ]_vars

\* C6: a send whose sender or receiver is not an existing user returns
\* not_found, adds no row and writes no frame.
C6_UnknownParticipant ==
    [][ ( /\ SendStep
          /\ (last'.a \notin users \/ last'.b \notin users) )
        => ( /\ last'.status = "not_found"
             /\ messages' = messages
             /\ sent' = sent )
      ]_vars

\* C6 witness: a send from an existing user to an unknown receiver was refused
C6_Witness ==
    /\ last.op = "send_message"
    /\ last.status = "not_found"
    /\ last.a \in users
    /\ last.b \notin users

\* C7: after a send of a dict body has been stored, every response of the
\* history query for its pair holds the new row with a message equal (as
\* Python compares dicts) to the body sent.
C7_DictRoundTrip ==
    [][ ( /\ SendStep
          /\ last'.status = "ok"
          /\ last'.msg.t = "d" )
        => \A res \in get_messages_results(messages', last'.a, last'.b) :
              \E i \in DOMAIN res :
                 /\ res[i].id = Len(messages')
                 /\ ValEq(res[i].message, last'.msg)
      ]_vars

\* C7 witness: a history query has returned a two-key dict with a nested dict
C7_Witness ==
    /\ last.op = "get_messages"
    /\ \E i \in DOMAIN last.result :
          /\ last.result[i].message.t = "d"
          /\ Len(last.result[i].message.v) = 2
          /\ last.result[i].message.v[2][2].t = "d"

\* C9: in every response of the history query, two rows of the same sender
\* and the same (other) receiver come in the order they were stored (m1, stored first, before
\* m2).
C9_SerialOrder ==
    (last.op = "get_messages" /\ last.status = "ok")
    => \A i, j \in DOMAIN last.result :
          ( /\ last.result[i].sender_id = last.result[j].sender_id
            /\ last.result[i].receiver_id = last.result[j].receiver_id
            /\ last.result[i].sender_id # last.result[i].receiver_id
            /\ last.result[i].id < last.result[j].id )
          => i < j

\* C4: connect(id, c) leaves id mapped to c and every other identity as it
\* was; a push addressed to id that does not fail appends its frame to the
\* channel id is mapped to and to no other channel, a replaced one included.
C4_LastRegisterWins ==
    [][ /\ last'.op = "connect"
           => active_connections' =
                 [active_connections EXCEPT ![last'.a] = last'.ws]
        /\ ( /\ last'.op = "ws_send_message"
             /\ ~last'.fails
             /\ active_connections[last'.b] # None )
           => sent' = [sent EXCEPT ![active_connections[last'.b]] =
                          Append(@, Frame(last'.a, last'.b, last'.msg))]
      ]_vars

\* C4 witness: channel 1 and then channel 2 were registered for one identity,
\* both sessions are open, and a push has gone to channel 2 and none to 1
C4_Witness ==
    /\ last.op = "ws_send_message"
    /\ last.status = "ok"
    /\ last.ws = 2
    /\ active_connections[last.b] = 2
    /\ ws_state[1] = "open" /\ ws_user[1] = last.b
    /\ ws_state[2] = "open" /\ ws_user[2] = last.b
    /\ sent[1] = <<>>
    /\ Len(sent[2]) = 1

\* C8: disconnect(id) returns without error, leaves the entry of every other
\* identity, every other session (a connect suspended in accept included) and
\* every channel's frames as they were, and changes nothing of the registry
\* when id has no entry.
C8_DisconnectFrame ==
    [][ last'.op = "disconnect"
        => ( /\ last'.status = "ok"
             /\ \A v \in UserIds \ {last'.a} :
                   active_connections'[v] = active_connections[v]
             /\ active_connections'[last'.a] = None
             /\ active_connections[last'.a] = None
                   => active_connections' = active_connections
             /\ \A w \in Channels \ {last'.by} : ws_state'[w] = ws_state[w]
             /\ ws_user' = ws_user
             /\ sent' = sent )
      ]_vars

\* C8 witness: a disconnect found no entry for its identity while another
\* identity was registered
C8_Witness ==
    /\ last.op = "disconnect"
    /\ last.ws = None
    /\ \E v \in UserIds \ {last.a} : active_connections[v] # None

\* C10: a disconnect made by a session of an identity that the registry no
\* longer maps to (a newer, still open session of the identity has replaced
\* it) leaves the identity mapped to the newer channel.
C10_NewerSessionStays ==
    [][ ( /\ last'.op = "disconnect"
          /\ active_connections[last'.a] # None
          /\ active_connections[last'.a] # last'.by
          /\ ws_state[active_connections[last'.a]] = "open" )
        => active_connections'[last'.a] = active_connections[last'.a]
      ]_vars

====
